---- MODULE Spec2Model ----
(***************************************************************************)
(* Model of project_status_engine.py: the RAG evaluator, the highlight /   *)
(* lowlight detector, the 7-day comparator and the status engine.          *)
(*                                                                         *)
(* Real-valued metrics (spi, cpi, quality_score, risk_score, rates,        *)
(* confidence) are fixed-point integers in hundredths: 0.98 is 98, 1.0 is  *)
(* 100.  Quotients (milestone completion rate, window averages) are exact  *)
(* fractions [num, den] with den > 0, compared by cross-multiplication, so *)
(* the model computes in exact arithmetic.                                 *)
(***************************************************************************)
EXTENDS Integers, Sequences, FiniteSets, TLC

VARIABLES
    THRESHOLDS,          \* RAGEvaluator.THRESHOLDS (class-level dict)
    HIGHLIGHT_TRIGGERS,  \* HighlightDetector.HIGHLIGHT_TRIGGERS
    LOWLIGHT_TRIGGERS,   \* HighlightDetector.LOWLIGHT_TRIGGERS
    metrics,             \* the HealthMetrics value handed to the evaluator / detector
    called,              \* which operations have been applied to `metrics`
    dims,                \* the four dimension statuses of calculate_overall_status
    overall,             \* (overall_status, confidence) returned by calculate_overall_status
    highlights,          \* list returned by detect_highlights
    lowlights,           \* list returned by detect_lowlights
    clock,               \* the wall clock read by datetime.now(), in hours
    trace                \* the calls made on the engine so far, with their results

vars == <<THRESHOLDS, HIGHLIGHT_TRIGGERS, LOWLIGHT_TRIGGERS,
          metrics, called, dims, overall, highlights, lowlights, clock, trace>>

config == <<THRESHOLDS, HIGHLIGHT_TRIGGERS, LOWLIGHT_TRIGGERS>>

-----------------------------------------------------------------------------
(* Bounds of the explored input space *)

MaxSev1 == 2
MaxSev2 == 4
\* lengths of the input lists
MaxHist == 2
MaxMilestones == 2
MaxRisks == 4
MaxKpis == 2
MaxProjects == 3
\* length of a sequence of calls on one engine, and clock ticks during it
MaxCalls == 3
MaxTicks == 1

\* index values (spi, cpi) in hundredths, around every threshold
IndexValues == {80, 89, 90, 95, 97, 98, 100, 105, 110}
QualityScoreValues == {95, 100}
RiskScoreValues == {0, 30, 31, 60, 61, 90}
\* milestone completion rates 0, 0.95, 0.98 and 1.0 as fractions
RateValues == {[num |-> 0, den |-> 1], [num |-> 19, den |-> 20],
               [num |-> 49, den |-> 50], [num |-> 1, den |-> 1]}
\* the one instant datetime.now() returns: day 20, 12:00
ClockValues == {20 * 24 + 12}

-----------------------------------------------------------------------------
(* Enumerations and the metrics dataclass *)

StatusColor == {"green", "amber", "red", "blue", "grey"}
TrendDirection == {"up", "down", "flat"}

\* HealthMetrics() with every field at its dataclass default
HealthMetrics ==
    [spi |-> 100, cpi |-> 100, quality_score |-> 100, risk_score |-> 0,
     defect_count |-> 0, sev1_defects |-> 0, sev2_defects |-> 0,
     milestone_completion_rate |-> [num |-> 1, den |-> 1],
     scope_change_percentage |-> 0,
     resource_utilization |-> 100, stakeholder_satisfaction |-> 100]

\* the class-level threshold table
THRESHOLDS_TABLE ==
    [schedule |-> [green |-> [spi_min |-> 98, slip_max |-> 5],
                   amber |-> [spi_min |-> 90, slip_max |-> 10],
                   red   |-> [spi_min |-> 0,  slip_max |-> 100]],
     cost     |-> [green |-> [cpi_min |-> 98, eac_variance_max |-> 5],
                   amber |-> [cpi_min |-> 90, eac_variance_max |-> 10],
                   red   |-> [cpi_min |-> 0,  eac_variance_max |-> 100]],
     quality  |-> [green |-> [sev1_max |-> 0,   sev2_max |-> 0,   defect_trend_max |-> 0],
                   amber |-> [sev1_max |-> 0,   sev2_max |-> 3,   defect_trend_max |-> 20],
                   red   |-> [sev1_max |-> 999, sev2_max |-> 999, defect_trend_max |-> 100]],
     risk     |-> [green |-> [high_risks_max |-> 0,   risk_score_max |-> 30],
                   amber |-> [high_risks_max |-> 1,   risk_score_max |-> 60],
                   red   |-> [high_risks_max |-> 999, risk_score_max |-> 100]]]

\* only the trigger entries the detector reads or that are numeric
HIGHLIGHT_TRIGGERS_TABLE ==
    [schedule |-> [spi_threshold |-> 105, early_completion_days |-> 5],
     cost     |-> [cpi_threshold |-> 105, savings_percentage |-> 3],
     quality  |-> [defect_reduction |-> 20, test_coverage_target |-> 80]]

LOWLIGHT_TRIGGERS_TABLE ==
    [schedule |-> [spi_threshold |-> 95, slip_days |-> 7, slip_percentage |-> 5],
     cost     |-> [cpi_threshold |-> 95, overrun_percentage |-> 3],
     quality  |-> [sev1_count |-> 1, sev2_count |-> 3]]

-----------------------------------------------------------------------------
(* Fractions *)

Frac(n, d) == [num |-> n, den |-> d]
\* a / b > c / 100 for a fraction a/b and a value c in hundredths
FracGtH(f, c) == f.num * 100 > c * f.den
\* a / b # 1.0
FracNeOne(f) == f.num # f.den

-----------------------------------------------------------------------------
(* RAGEvaluator *)

\* evaluate_schedule_health with strict comparisons at the band boundaries
evaluate_schedule_health_strict(m) ==
    LET spi == m.spi IN
    IF spi > THRESHOLDS.schedule.green.spi_min THEN "green"
    ELSE IF spi > THRESHOLDS.schedule.amber.spi_min THEN "amber"
    ELSE "red"

evaluate_schedule_health(m) ==
    LET spi == m.spi IN
    IF spi >= THRESHOLDS.schedule.green.spi_min THEN "green"
    ELSE IF spi >= THRESHOLDS.schedule.amber.spi_min THEN "amber"
    ELSE "red"

evaluate_cost_health(m) ==
    LET cpi == m.cpi IN
    IF cpi >= THRESHOLDS.cost.green.cpi_min THEN "green"
    ELSE IF cpi >= THRESHOLDS.cost.amber.cpi_min THEN "amber"
    ELSE "red"

evaluate_quality_health(m) ==
    IF m.sev1_defects <= THRESHOLDS.quality.green.sev1_max
       /\ m.sev2_defects <= THRESHOLDS.quality.green.sev2_max THEN "green"
    ELSE IF m.sev1_defects <= THRESHOLDS.quality.amber.sev1_max
            /\ m.sev2_defects <= THRESHOLDS.quality.amber.sev2_max THEN "amber"
    ELSE "red"

\* evaluate_risk_health whose amber band excludes its upper threshold
evaluate_risk_health_strict(m) ==
    LET risk_score == m.risk_score IN
    IF risk_score <= THRESHOLDS.risk.green.risk_score_max THEN "green"
    ELSE IF risk_score < THRESHOLDS.risk.amber.risk_score_max THEN "amber"
    ELSE "red"

evaluate_risk_health(m) ==
    LET risk_score == m.risk_score IN
    IF risk_score <= THRESHOLDS.risk.green.risk_score_max THEN "green"
    ELSE IF risk_score <= THRESHOLDS.risk.amber.risk_score_max THEN "amber"
    ELSE "red"

\* severity_map.get(s, 0)
severity_map(s) ==
    CASE s = "green" -> 0
      [] s = "amber" -> 1
      [] s = "red"   -> 2
      [] OTHER       -> 0

\* status_map[worst_severity]
status_map(n) ==
    CASE n = 0 -> "green"
      [] n = 1 -> "amber"
      [] n = 2 -> "red"

RECURSIVE SeqMax(_)
\* max(severities) of a non-empty list
SeqMax(s) ==
    IF Len(s) = 1 THEN s[1]
    ELSE LET r == SeqMax(Tail(s)) IN IF s[1] >= r THEN s[1] ELSE r

RECURSIVE SeqSum(_)
\* sum(...) of a list of integers
SeqSum(s) == IF s = <<>> THEN 0 ELSE s[1] + SeqSum(Tail(s))

\* a Python bool used as an integer
Bool2Int(b) == IF b THEN 1 ELSE 0

\* the four local dimension statuses, in the order of the `statuses` list
dimension_statuses(m) ==
    <<evaluate_schedule_health(m), evaluate_cost_health(m),
      evaluate_quality_health(m), evaluate_risk_health(m)>>

\* data_points that counts the risk dimension's status instead of risk_score
data_points_status(m) ==
    <<Bool2Int(m.spi # 100),
      Bool2Int(m.cpi # 100),
      Bool2Int(m.quality_score # 100),
      Bool2Int(evaluate_risk_health(m) # "green"),
      Bool2Int(FracNeOne(m.milestone_completion_rate))>>

\* the data_points flags of the confidence computation
data_points(m) ==
    <<Bool2Int(m.spi # 100),
      Bool2Int(m.cpi # 100),
      Bool2Int(m.quality_score # 100),
      Bool2Int(m.risk_score # 0),
      Bool2Int(FracNeOne(m.milestone_completion_rate))>>

\* calculate_overall_status that averages the severities instead of taking the worst
calculate_overall_status_average(m) ==
    LET statuses == dimension_statuses(m)
        severities == [i \in 1..Len(statuses) |-> severity_map(statuses[i])]
        confidence == (SeqSum(data_points(m)) * 100) \div Len(data_points(m))
    IN [status |-> status_map(SeqSum(severities) \div Len(severities)),
        confidence |-> confidence]

calculate_overall_status(m) ==
    LET statuses == dimension_statuses(m)
        severities == [i \in 1..Len(statuses) |-> severity_map(statuses[i])]
        worst_severity == SeqMax(severities)
        confidence == (SeqSum(data_points(m)) * 100) \div Len(data_points(m))
    IN [status |-> status_map(worst_severity), confidence |-> confidence]

-----------------------------------------------------------------------------
(* HighlightDetector.  The previous_metrics and project_data arguments are  *)
(* carried to show that no rule reads them.                                 *)

\* detect_highlights whose list is shared by the calls on one detector: the
\* records of the previous evaluation are still in it
detect_highlights_accumulating(current_metrics, previous_metrics, project_data) ==
    LET h1 == IF current_metrics.spi >= HIGHLIGHT_TRIGGERS.schedule.spi_threshold
              THEN <<[category |-> "schedule",
                      title |-> "Schedule Performance Exceeds Target",
                      impact |-> "positive",
                      metric |-> <<"SPI", current_metrics.spi>>]>>
              ELSE <<>>
        h2 == IF current_metrics.cpi >= HIGHLIGHT_TRIGGERS.cost.cpi_threshold
              THEN <<[category |-> "cost",
                      title |-> "Cost Performance Under Budget",
                      impact |-> "positive",
                      metric |-> <<"CPI", current_metrics.cpi>>]>>
              ELSE <<>>
        h3 == IF current_metrics.sev1_defects = 0 /\ current_metrics.sev2_defects = 0
              THEN <<[category |-> "quality",
                      title |-> "Zero Critical Defects",
                      impact |-> "positive",
                      metric |-> <<"Sev-1/Sev-2", 0>>]>>
              ELSE <<>>
        h4 == IF FracGtH(current_metrics.milestone_completion_rate, 95)
              THEN <<[category |-> "delivery",
                      title |-> "Strong Milestone Achievement",
                      impact |-> "positive",
                      metric |-> <<"Completion", current_metrics.milestone_completion_rate>>]>>
              ELSE <<>>
        kept == IF trace # <<>> /\ trace[Len(trace)].op = "evaluate_project"
                THEN trace[Len(trace)].ret.highlights ELSE <<>>
    IN kept \o h1 \o h2 \o h3 \o h4

detect_highlights(current_metrics, previous_metrics, project_data) ==
    LET h1 == IF current_metrics.spi >= HIGHLIGHT_TRIGGERS.schedule.spi_threshold
              THEN <<[category |-> "schedule",
                      title |-> "Schedule Performance Exceeds Target",
                      impact |-> "positive",
                      metric |-> <<"SPI", current_metrics.spi>>]>>
              ELSE <<>>
        h2 == IF current_metrics.cpi >= HIGHLIGHT_TRIGGERS.cost.cpi_threshold
              THEN <<[category |-> "cost",
                      title |-> "Cost Performance Under Budget",
                      impact |-> "positive",
                      metric |-> <<"CPI", current_metrics.cpi>>]>>
              ELSE <<>>
        h3 == IF current_metrics.sev1_defects = 0 /\ current_metrics.sev2_defects = 0
              THEN <<[category |-> "quality",
                      title |-> "Zero Critical Defects",
                      impact |-> "positive",
                      metric |-> <<"Sev-1/Sev-2", 0>>]>>
              ELSE <<>>
        h4 == IF FracGtH(current_metrics.milestone_completion_rate, 95)
              THEN <<[category |-> "delivery",
                      title |-> "Strong Milestone Achievement",
                      impact |-> "positive",
                      metric |-> <<"Completion", current_metrics.milestone_completion_rate>>]>>
              ELSE <<>>
    IN h1 \o h2 \o h3 \o h4

\* detect_lowlights that appends the risk record before the quality record
detect_lowlights_reordered(current_metrics, previous_metrics, project_data) ==
    LET l1 == IF current_metrics.spi <= LOWLIGHT_TRIGGERS.schedule.spi_threshold
              THEN <<[category |-> "schedule",
                      title |-> "Schedule Slippage Detected",
                      impact |-> "negative",
                      metric |-> <<"SPI", current_metrics.spi>>,
                      action_required |-> "Schedule recovery plan needed"]>>
              ELSE <<>>
        l2 == IF current_metrics.cpi <= LOWLIGHT_TRIGGERS.cost.cpi_threshold
              THEN <<[category |-> "cost",
                      title |-> "Cost Overrun Risk",
                      impact |-> "negative",
                      metric |-> <<"CPI", current_metrics.cpi>>,
                      action_required |-> "Cost mitigation strategy required"]>>
              ELSE <<>>
        l3 == IF current_metrics.sev1_defects >= LOWLIGHT_TRIGGERS.quality.sev1_count
              THEN <<[category |-> "quality",
                      title |-> "Critical Defects Present",
                      impact |-> "negative",
                      metric |-> <<"Sev-1", current_metrics.sev1_defects>>,
                      action_required |-> "Immediate defect resolution required"]>>
              ELSE <<>>
        l4 == IF current_metrics.risk_score > 60
              THEN <<[category |-> "risk",
                      title |-> "High Risk Exposure",
                      impact |-> "negative",
                      metric |-> <<"Risk Score", current_metrics.risk_score>>,
                      action_required |-> "Risk mitigation plan needed"]>>
              ELSE <<>>
    IN l1 \o l2 \o l4 \o l3

detect_lowlights(current_metrics, previous_metrics, project_data) ==
    LET l1 == IF current_metrics.spi <= LOWLIGHT_TRIGGERS.schedule.spi_threshold
              THEN <<[category |-> "schedule",
                      title |-> "Schedule Slippage Detected",
                      impact |-> "negative",
                      metric |-> <<"SPI", current_metrics.spi>>,
                      action_required |-> "Schedule recovery plan needed"]>>
              ELSE <<>>
        l2 == IF current_metrics.cpi <= LOWLIGHT_TRIGGERS.cost.cpi_threshold
              THEN <<[category |-> "cost",
                      title |-> "Cost Overrun Risk",
                      impact |-> "negative",
                      metric |-> <<"CPI", current_metrics.cpi>>,
                      action_required |-> "Cost mitigation strategy required"]>>
              ELSE <<>>
        l3 == IF current_metrics.sev1_defects >= LOWLIGHT_TRIGGERS.quality.sev1_count
              THEN <<[category |-> "quality",
                      title |-> "Critical Defects Present",
                      impact |-> "negative",
                      metric |-> <<"Sev-1", current_metrics.sev1_defects>>,
                      action_required |-> "Immediate defect resolution required"]>>
              ELSE <<>>
        l4 == IF current_metrics.risk_score > 60
              THEN <<[category |-> "risk",
                      title |-> "High Risk Exposure",
                      impact |-> "negative",
                      metric |-> <<"Risk Score", current_metrics.risk_score>>,
                      action_required |-> "Risk mitigation plan needed"]>>
              ELSE <<>>
    IN l1 \o l2 \o l3 \o l4

-----------------------------------------------------------------------------
(* Dictionaries, dates and list helpers *)

\* d.get(k, default)
Get(d, k, default) == IF k \in DOMAIN d THEN d[k] ELSE default

\* timedelta(days=n), in hours
timedelta_days(n) == n * 24

\* datetime.fromisoformat of a date string "day" or "dayT12:00", in hours
fromisoformat(date) == date.day * 24 + date.hour

\* the empty dict {}
EmptyDict == [k \in {} |-> 0]

\* the optional historical_data argument: None, or a list of records
None == [is_none |-> TRUE, items |-> <<>>]
List(items) == [is_none |-> FALSE, items |-> items]
\* truthiness of an optional list: None and [] are both false
Truthy(opt) == ~opt.is_none /\ opt.items # <<>>

RECURSIVE Count(_, _)
\* trend_values.count(x)
Count(s, x) == IF s = <<>> THEN 0 ELSE Bool2Int(s[1] = x) + Count(Tail(s), x)

\* str.lower() on the metric names of the input space
Lower(name) ==
    CASE name = "Open Issues" -> "open issues"
      [] name = "ISSUES"      -> "issues"
      [] OTHER                -> name

\* 'issue' in name, for the (lowercased or not) names of the input space
ContainsIssue(name) == name \in {"open issues", "issues", "issue_count"}

-----------------------------------------------------------------------------
(* ProjectComparator *)

\* _filter_period_data whose window excludes its start instant
_filter_period_data_half_open(data, start, end) ==
    SelectSeq(data, LAMBDA item :
        /\ "date" \in DOMAIN item
        /\ start < fromisoformat(item.date)
        /\ fromisoformat(item.date) <= end)

_filter_period_data(data, start, end) ==
    SelectSeq(data, LAMBDA item :
        /\ "date" \in DOMAIN item
        /\ start <= fromisoformat(item.date)
        /\ fromisoformat(item.date) <= end)

\* the list of d.get(k, default) over a period
Column(period_data, k, default) ==
    [i \in 1..Len(period_data) |-> Get(period_data[i], k, default)]

\* _aggregate_metrics whose empty window has no schedule signal at all (spi 0)
_aggregate_metrics_zero(period_data) ==
    IF period_data = <<>>
    THEN [avg_spi |-> Frac(0, 1), avg_cpi |-> Frac(100, 1),
          total_issues |-> 0, completion_rate |-> Frac(0, 1)]
    ELSE [avg_spi |-> Frac(SeqSum(Column(period_data, "spi", 100)), Len(period_data)),
          avg_cpi |-> Frac(SeqSum(Column(period_data, "cpi", 100)), Len(period_data)),
          total_issues |-> SeqSum(Column(period_data, "issues", 0)),
          completion_rate |->
              Frac(SeqSum(Column(period_data, "completion", 0)), Len(period_data))]

_aggregate_metrics(period_data) ==
    IF period_data = <<>>
    THEN [avg_spi |-> Frac(100, 1), avg_cpi |-> Frac(100, 1),
          total_issues |-> 0, completion_rate |-> Frac(0, 1)]
    ELSE [avg_spi |-> Frac(SeqSum(Column(period_data, "spi", 100)), Len(period_data)),
          avg_cpi |-> Frac(SeqSum(Column(period_data, "cpi", 100)), Len(period_data)),
          total_issues |-> SeqSum(Column(period_data, "issues", 0)),
          completion_rate |->
              Frac(SeqSum(Column(period_data, "completion", 0)), Len(period_data))]

\* a > b * (c / 100) for fractions a, b and a factor c in hundredths
FracGtScaled(a, b, c) == a.num * b.den * 100 > b.num * c * a.den
\* a < b * (c / 100)
FracLtScaled(a, b, c) == a.num * b.den * 100 < b.num * c * a.den

\* _calculate_trends that reads the issue trend like the index trends (more is up)
_calculate_trends_not_inverse(recent, previous) ==
    LET recent_metrics == _aggregate_metrics(recent)
        previous_metrics == _aggregate_metrics(previous)
    IN [schedule |->
            IF FracGtScaled(recent_metrics.avg_spi, previous_metrics.avg_spi, 102) THEN "up"
            ELSE IF FracLtScaled(recent_metrics.avg_spi, previous_metrics.avg_spi, 98) THEN "down"
            ELSE "flat",
        cost |->
            IF FracGtScaled(recent_metrics.avg_cpi, previous_metrics.avg_cpi, 102) THEN "up"
            ELSE IF FracLtScaled(recent_metrics.avg_cpi, previous_metrics.avg_cpi, 98) THEN "down"
            ELSE "flat",
        quality |->
            IF recent_metrics.total_issues * 10 > previous_metrics.total_issues * 11 THEN "up"
            ELSE IF recent_metrics.total_issues * 10 < previous_metrics.total_issues * 9 THEN "down"
            ELSE "flat"]

_calculate_trends(recent, previous) ==
    LET recent_metrics == _aggregate_metrics(recent)
        previous_metrics == _aggregate_metrics(previous)
    IN [schedule |->
            IF FracGtScaled(recent_metrics.avg_spi, previous_metrics.avg_spi, 102) THEN "up"
            ELSE IF FracLtScaled(recent_metrics.avg_spi, previous_metrics.avg_spi, 98) THEN "down"
            ELSE "flat",
        cost |->
            IF FracGtScaled(recent_metrics.avg_cpi, previous_metrics.avg_cpi, 102) THEN "up"
            ELSE IF FracLtScaled(recent_metrics.avg_cpi, previous_metrics.avg_cpi, 98) THEN "down"
            ELSE "flat",
        quality |->
            IF recent_metrics.total_issues * 10 < previous_metrics.total_issues * 9 THEN "up"
            ELSE IF recent_metrics.total_issues * 10 > previous_metrics.total_issues * 11 THEN "down"
            ELSE "flat"]

\* the recent_period and previous_period lists local to calculate_7day_comparison
recent_period(historical_data, now) ==
    _filter_period_data(historical_data, now - timedelta_days(7), now)
previous_period(historical_data, now) ==
    _filter_period_data(historical_data, now - timedelta_days(14), now - timedelta_days(7))

\* calculate_7day_comparison with datetime.now() = now
calculate_7day_comparison(current_data, historical_data, now) ==
    LET current_date == now
        seven_days_ago == current_date - timedelta_days(7)
        fourteen_days_ago == current_date - timedelta_days(14)
        recent == _filter_period_data(historical_data, seven_days_ago, current_date)
        previous == _filter_period_data(historical_data, fourteen_days_ago, seven_days_ago)
    IN [current_period |-> [start |-> seven_days_ago, end |-> current_date,
                            metrics |-> _aggregate_metrics(recent)],
        previous_period |-> [start |-> fourteen_days_ago, end |-> seven_days_ago,
                             metrics |-> _aggregate_metrics(previous)],
        trends |-> _calculate_trends(recent, previous)]

-----------------------------------------------------------------------------
(* ProjectStatusEngine *)

\* the number of list items whose key k has value v (item.get(k) == v)
CountWhere(items, k, v) ==
    Len(SelectSeq(items, LAMBDA item : k \in DOMAIN item /\ item[k] = v))

\* next((k for k in kpis if 'issue' in k.get('metric', '').lower()), {})
issues_kpi(kpis) ==
    LET found == SelectSeq(kpis, LAMBDA k : ContainsIssue(Lower(Get(k, "metric", ""))))
    IN IF found = <<>> THEN EmptyDict ELSE found[1]

Max2(a, b) == IF a >= b THEN a ELSE b
Min2(a, b) == IF a <= b THEN a ELSE b

\* _extract_metrics that leaves out the max(0, ...) around the sev1 estimate
_extract_metrics_unclamped(project_data) ==
    LET milestones == Get(project_data, "milestones", <<>>)
        completed == CountWhere(milestones, "status", "completed")
        total == IF milestones # <<>> THEN Len(milestones) ELSE 1
        milestone_rate == IF total > 0 THEN Frac(completed, total) ELSE Frac(0, 1)
        risks == Get(project_data, "risks", <<>>)
        high_risks == CountWhere(risks, "severity", "high")
        risk_score == Min2(high_risks * 30, 100)
        kpis == Get(project_data, "kpis", <<>>)
        issue_count == Get(issues_kpi(kpis), "value", 0)
        spi == IF CountWhere(milestones, "status", "at-risk") > 0 THEN 95 ELSE 102
        cpi == 98
        sev1_defects == issue_count \div 10
        sev2_defects == Max2(0, issue_count \div 5 - sev1_defects)
    IN [spi |-> spi,
        cpi |-> cpi,
        quality_score |-> IF issue_count < 100 THEN 100 - issue_count ELSE 0,
        risk_score |-> risk_score,
        defect_count |-> issue_count,
        sev1_defects |-> sev1_defects,
        sev2_defects |-> sev2_defects,
        milestone_completion_rate |-> milestone_rate,
        scope_change_percentage |-> 0,
        resource_utilization |-> 100,
        stakeholder_satisfaction |-> 85]

_extract_metrics(project_data) ==
    LET milestones == Get(project_data, "milestones", <<>>)
        completed == CountWhere(milestones, "status", "completed")
        total == IF milestones # <<>> THEN Len(milestones) ELSE 1
        milestone_rate == IF total > 0 THEN Frac(completed, total) ELSE Frac(0, 1)
        risks == Get(project_data, "risks", <<>>)
        high_risks == CountWhere(risks, "severity", "high")
        risk_score == Min2(high_risks * 30, 100)
        kpis == Get(project_data, "kpis", <<>>)
        issue_count == Get(issues_kpi(kpis), "value", 0)
        spi == IF CountWhere(milestones, "status", "at-risk") > 0 THEN 95 ELSE 102
        cpi == 98
        sev1_defects == Max2(0, issue_count \div 10)
        sev2_defects == Max2(0, issue_count \div 5 - sev1_defects)
    IN [spi |-> spi,
        cpi |-> cpi,
        quality_score |-> IF issue_count < 100 THEN 100 - issue_count ELSE 0,
        risk_score |-> risk_score,
        defect_count |-> issue_count,
        sev1_defects |-> sev1_defects,
        sev2_defects |-> sev2_defects,
        milestone_completion_rate |-> milestone_rate,
        scope_change_percentage |-> 0,
        resource_utilization |-> 100,
        stakeholder_satisfaction |-> 85]

\* iteration over set(trend_values): its members in the order `order`, which
\* stands for the hash-table order (not fixed by the list order)
set_iteration(values, order) ==
    SelectSeq(order, LAMBDA x : \E i \in 1..Len(values) : values[i] = x)

RECURSIVE MaxByCount(_, _)
\* max(candidates, key=values.count): the first candidate of maximal count
MaxByCount(candidates, values) ==
    IF Len(candidates) = 1 THEN candidates[1]
    ELSE LET r == MaxByCount(Tail(candidates), values)
         IN IF Count(values, candidates[1]) >= Count(values, r)
            THEN candidates[1] ELSE r

\* the orders in which a set of trend directions may be iterated
TrendOrders ==
    {<<"up", "down", "flat">>, <<"up", "flat", "down">>, <<"down", "up", "flat">>,
     <<"down", "flat", "up">>, <<"flat", "up", "down">>, <<"flat", "down", "up">>}

\* evaluate_project that runs the comparator whenever a list, even an empty
\* one, is passed, and reports the schedule trend as the overall trend
evaluate_project_schedule_trend(project_data, historical_data, now, order) ==
    LET m == _extract_metrics(project_data)
        rag == calculate_overall_status(m)
        hl == detect_highlights(m, None, project_data)
        ll == detect_lowlights(m, None, project_data)
        ran == ~historical_data.is_none
        comparison == IF ran
                      THEN calculate_7day_comparison(project_data, historical_data.items, now)
                      ELSE EmptyDict
        trend == IF ran THEN comparison.trends.schedule ELSE "flat"
    IN [project_id |-> Get(project_data, "id", "unknown"),
        project_name |-> Get(project_data, "name", "Unknown Project"),
        overall_status |-> rag.status,
        trend |-> trend,
        health_metrics |-> m,
        highlights |-> hl,
        lowlights |-> ll,
        confidence_score |-> rag.confidence,
        evaluation_date |-> now,
        comparison_period |-> comparison]

\* evaluate_project with datetime.now() = now and set iteration order `order`
evaluate_project(project_data, historical_data, now, order) ==
    LET m == _extract_metrics(project_data)
        rag == calculate_overall_status(m)
        hl == detect_highlights(m, None, project_data)
        ll == detect_lowlights(m, None, project_data)
        ran == Truthy(historical_data)
        comparison == IF ran
                      THEN calculate_7day_comparison(project_data, historical_data.items, now)
                      ELSE EmptyDict
        trends == IF ran THEN comparison.trends ELSE EmptyDict
        \* list(trends.values()): schedule, cost, quality in insertion order
        trend_values == IF ran THEN <<trends.schedule, trends.cost, trends.quality>>
                        ELSE <<>>
        trend == IF trend_values # <<>>
                 THEN MaxByCount(set_iteration(trend_values, order), trend_values)
                 ELSE "flat"
    IN [project_id |-> Get(project_data, "id", "unknown"),
        project_name |-> Get(project_data, "name", "Unknown Project"),
        overall_status |-> rag.status,
        trend |-> trend,
        health_metrics |-> m,
        highlights |-> hl,
        lowlights |-> ll,
        confidence_score |-> rag.confidence,
        evaluation_date |-> now,
        comparison_period |-> comparison]

\* round(n / d) to the nearest integer, halves to the even one, as '.0f' does
RoundHalfEven(n, d) ==
    LET q == n \div d
        r == n % d
    IN IF 2 * r < d THEN q
       ELSE IF 2 * r > d THEN q + 1
       ELSE IF q % 2 = 0 THEN q ELSE q + 1

\* f'{(count/total*100):.0f}%' if total > 0 else '0%'
Percentage(count, total) ==
    IF total > 0 THEN <<RoundHalfEven(count * 100, total), "%">> ELSE <<0, "%">>

\* _generate_summary that counts every project that is not green as amber
_generate_summary_not_green(projects) ==
    LET total == Len(projects)
        green == Len(SelectSeq(projects, LAMBDA e : e.status = "green"))
        amber == Len(SelectSeq(projects, LAMBDA e : e.status # "green"))
        red == Len(SelectSeq(projects, LAMBDA e : e.status = "red"))
    IN [total_projects |-> total,
        health_distribution |-> [green |-> green, amber |-> amber, red |-> red],
        health_percentage |-> [green |-> Percentage(green, total),
                               amber |-> Percentage(amber, total),
                               red |-> Percentage(red, total)]]

_generate_summary(projects) ==
    LET total == Len(projects)
        green == Len(SelectSeq(projects, LAMBDA e : e.status = "green"))
        amber == Len(SelectSeq(projects, LAMBDA e : e.status = "amber"))
        red == Len(SelectSeq(projects, LAMBDA e : e.status = "red"))
    IN [total_projects |-> total,
        health_distribution |-> [green |-> green, amber |-> amber, red |-> red],
        health_percentage |-> [green |-> Percentage(green, total),
                               amber |-> Percentage(amber, total),
                               red |-> Percentage(red, total)]]

\* project.get('name'): the name, or None
GetOrNone(d, k) == IF k \in DOMAIN d THEN <<d[k]>> ELSE <<>>

\* generate_status_report with datetime.now() = now
generate_status_report(projects, now, order) ==
    LET evaluated_projects ==
            [i \in 1..Len(projects) |->
                LET status == evaluate_project(projects[i], None, now, order)
                IN [project |-> GetOrNone(projects[i], "name"),
                    status |-> status.overall_status,
                    trend |-> status.trend,
                    confidence |-> <<status.confidence_score, "%">>,
                    highlights |-> status.highlights,
                    lowlights |-> status.lowlights,
                    metrics |-> [spi |-> status.health_metrics.spi,
                                 cpi |-> status.health_metrics.cpi,
                                 quality |-> status.health_metrics.quality_score,
                                 risk |-> status.health_metrics.risk_score]]]
    IN [report_date |-> now,
        projects |-> evaluated_projects,
        summary |-> _generate_summary(evaluated_projects)]

-----------------------------------------------------------------------------
(* Specification of the evaluator and the detector applied to one          *)
(* HealthMetrics value drawn from the bounded input space.                 *)

MetricsInputs ==
    {[HealthMetrics EXCEPT !.spi = s, !.cpi = c, !.quality_score = q,
                           !.risk_score = r, !.sev1_defects = s1,
                           !.sev2_defects = s2, !.defect_count = s1 + s2,
                           !.milestone_completion_rate = mr] :
        s \in IndexValues, c \in IndexValues, q \in QualityScoreValues,
        r \in RiskScoreValues, s1 \in 0..MaxSev1, s2 \in 0..MaxSev2,
        mr \in RateValues}

NoStatuses == <<"none", "none", "none", "none">>
NoOverall == [status |-> "none", confidence |-> 0]

InitConfig ==
    /\ THRESHOLDS = THRESHOLDS_TABLE
    /\ HIGHLIGHT_TRIGGERS = HIGHLIGHT_TRIGGERS_TABLE
    /\ LOWLIGHT_TRIGGERS = LOWLIGHT_TRIGGERS_TABLE

Init ==
    /\ InitConfig
    /\ metrics \in MetricsInputs
    /\ called = {}
    /\ dims = NoStatuses
    /\ overall = NoOverall
    /\ highlights = <<>>
    /\ lowlights = <<>>
    /\ clock \in ClockValues
    /\ trace = <<>>

CalculateOverallStatus ==
    /\ "calculate_overall_status" \notin called
    /\ called' = called \cup {"calculate_overall_status"}
    /\ dims' = dimension_statuses(metrics)
    /\ overall' = calculate_overall_status(metrics)
    /\ UNCHANGED <<config, metrics, highlights, lowlights, clock, trace>>

DetectHighlights ==
    /\ "detect_highlights" \notin called
    /\ called' = called \cup {"detect_highlights"}
    /\ highlights' = detect_highlights(metrics, None, <<>>)
    /\ UNCHANGED <<config, metrics, dims, overall, lowlights, clock, trace>>

DetectLowlights ==
    /\ "detect_lowlights" \notin called
    /\ called' = called \cup {"detect_lowlights"}
    /\ lowlights' = detect_lowlights(metrics, None, <<>>)
    /\ UNCHANGED <<config, metrics, dims, overall, highlights, clock, trace>>

Next == CalculateOverallStatus \/ DetectHighlights \/ DetectLowlights

Spec == Init /\ [][Next]_vars

-----------------------------------------------------------------------------
(* Input spaces of the comparator and the engine *)

\* all lists over S of length at most n
SeqsUpTo(S, n) == UNION {[1..k -> S] : k \in 0..n}

\* date strings on both sides of now - 14d, now - 7d and now
DateValues ==
    {[day |-> d, hour |-> h] : d \in {6, 13, 20}, h \in {0, 12}}
    \cup {[day |-> 21, hour |-> 0]}

\* the metric parts of a historical record; absent keys take their defaults
HistoricalProfiles ==
    {EmptyDict,
     [spi |-> 102, cpi |-> 98, issues |-> 10],
     [spi |-> 103, cpi |-> 97, issues |-> 9],
     [spi |-> 110, cpi |-> 90, issues |-> 11, completion |-> 50]}

\* dict union {**a, **b} of two records with disjoint keys
Merge(a, b) ==
    [k \in DOMAIN a \cup DOMAIN b |-> IF k \in DOMAIN a THEN a[k] ELSE b[k]]

HistoricalRecords ==
    {Merge([date |-> d], pr) : d \in DateValues, pr \in HistoricalProfiles}
    \cup {[spi |-> 110, cpi |-> 90, issues |-> 11]}

HistoricalInputs == SeqsUpTo(HistoricalRecords, MaxHist)

MilestoneItems == {[status |-> "completed"], [status |-> "at-risk"], [name |-> "kickoff"]}
RiskItems == {[severity |-> "high"], [severity |-> "low"]}
KpiItems ==
    {[metric |-> "Open Issues", value |-> 0 - 5],
     [metric |-> "issue_count", value |-> 100],
     [value |-> 50]}

\* a mapping with the given optional keys
Optional(k, values) == {EmptyDict} \cup {[x \in {k} |-> v] : v \in values}

IdentityInputs == {EmptyDict, [id |-> "p1", name |-> "Alpha"]}
MilestonesInputs == Optional("milestones", SeqsUpTo(MilestoneItems, MaxMilestones))
RisksInputs == Optional("risks", SeqsUpTo(RiskItems, MaxRisks))
KpisInputs == Optional("kpis", SeqsUpTo(KpiItems, MaxKpis))

\* the project mapping made of the four optional parts
Project(idn, ms, rs, ks) == Merge(Merge(idn, ms), Merge(rs, ks))

\* a green, an amber and two red projects
ProjectBare == EmptyDict
ProjectBeta ==
    [id |-> "p2", name |-> "Beta",
     milestones |-> <<[status |-> "at-risk"], [status |-> "completed"]>>,
     kpis |-> <<[metric |-> "issue_count", value |-> 7]>>]
ProjectGamma ==
    [name |-> "Gamma",
     risks |-> <<[severity |-> "high"], [severity |-> "high"], [severity |-> "high"]>>]
ProjectDelta ==
    [id |-> "p4", name |-> "Delta",
     milestones |-> <<[status |-> "completed"]>>,
     kpis |-> <<[metric |-> "Open Issues", value |-> 25]>>]

SmallProjects == {ProjectBare, ProjectBeta, ProjectGamma, ProjectDelta}

\* a project whose issue KPI carries no value
ProjectEpsilon ==
    [id |-> "p5", kpis |-> <<[metric |-> "velocity", value |-> 40], [metric |-> "Open Issues"]>>]

\* issue counts on both sides of the sev1 (// 10) and sev2 (// 5) steps
IssueCounts == {0, 4, 5, 9, 10, 11, 35}

\* KPI lists whose issue KPI, alone or behind another KPI, carries the count
IssueKpisInputs ==
    Optional("kpis",
        {<<[metric |-> "Open Issues", value |-> n]>> : n \in IssueCounts}
        \cup {<<[metric |-> "velocity", value |-> 40],
                [metric |-> "issue_count", value |-> n]>> : n \in {9, 10}})

-----------------------------------------------------------------------------
(* Calls on the engine.  Every call appends its arguments, the instant it  *)
(* read from the clock and its result to the trace; none assigns to the    *)
(* threshold and trigger tables.                                           *)

InitEngine ==
    /\ InitConfig
    /\ metrics = HealthMetrics
    /\ called = {}
    /\ dims = NoStatuses
    /\ overall = NoOverall
    /\ highlights = <<>>
    /\ lowlights = <<>>
    /\ clock \in ClockValues
    /\ trace = <<>>

evaluator_state == <<metrics, called, dims, overall, highlights, lowlights>>

Calculate7DayComparison(h) ==
    /\ trace' = Append(trace,
          [op |-> "calculate_7day_comparison",
           historical_data |-> h,
           now |-> clock,
           recent_period |-> recent_period(h, clock),
           previous_period |-> previous_period(h, clock),
           ret |-> calculate_7day_comparison(EmptyDict, h, clock)])
    /\ UNCHANGED <<config, evaluator_state, clock>>

ExtractMetrics(p) ==
    /\ trace' = Append(trace,
          [op |-> "_extract_metrics",
           project_data |-> p,
           ret |-> _extract_metrics(p)])
    /\ UNCHANGED <<config, evaluator_state, clock>>

EvaluateProject(p, h) ==
    /\ \E order \in TrendOrders :
          trace' = Append(trace,
              [op |-> "evaluate_project",
               project_data |-> p,
               historical_data |-> h,
               ret |-> evaluate_project(p, h, clock, order)])
    /\ UNCHANGED <<config, evaluator_state, clock>>

GenerateStatusReport(ps) ==
    /\ \E order \in TrendOrders :
          trace' = Append(trace,
              [op |-> "generate_status_report",
               projects |-> ps,
               ret |-> generate_status_report(ps, clock, order)])
    /\ UNCHANGED <<config, evaluator_state, clock>>

\* time passes between two calls
Tick ==
    /\ \A c \in ClockValues : clock < c + MaxTicks
    /\ clock' = clock + 1
    /\ UNCHANGED <<config, evaluator_state, trace>>

(* One call on a freshly constructed engine, over the large input spaces *)

CallComparator ==
    trace = <<>> /\ \E h \in HistoricalInputs : Calculate7DayComparison(h)

CallExtract ==
    /\ trace = <<>>
    /\ \/ \E idn \in IdentityInputs, ms \in MilestonesInputs,
             rs \in RisksInputs, ks \in KpisInputs :
             ExtractMetrics(Project(idn, ms, rs, ks))
       \/ \E p \in SmallProjects \cup {ProjectEpsilon} : ExtractMetrics(p)

CallEvaluate ==
    /\ trace = <<>>
    /\ \E p \in {ProjectBare, ProjectBeta},
          h \in {None} \cup {List(x) : x \in HistoricalInputs} :
          EvaluateProject(p, h)

\* an evaluation without history, over milestones, risks and issue counts
CallEvaluateCurrent ==
    /\ trace = <<>>
    /\ \E ms \in MilestonesInputs, rs \in RisksInputs, ks \in IssueKpisInputs :
          EvaluateProject(Project(EmptyDict, ms, rs, ks), None)

CallReport ==
    trace = <<>> /\ \E ps \in SeqsUpTo(SmallProjects, MaxProjects) : GenerateStatusReport(ps)

NextCall ==
    CallComparator \/ CallExtract \/ CallEvaluate \/ CallEvaluateCurrent \/ CallReport

SpecCall == InitEngine /\ [][NextCall]_vars

(* A sequence of evaluations and reports on one engine *)

EngineProjects == {ProjectBare, ProjectBeta, ProjectGamma}

EngineEvaluate ==
    Len(trace) < MaxCalls /\ \E p \in EngineProjects : EvaluateProject(p, None)

EngineReport ==
    /\ Len(trace) < MaxCalls
    /\ \E ps \in SeqsUpTo({ProjectGamma, ProjectBare}, 2) : GenerateStatusReport(ps)

NextEngine == EngineEvaluate \/ EngineReport \/ Tick

SpecEngine == InitEngine /\ [][NextEngine]_vars

-----------------------------------------------------------------------------
(* Properties of the evaluator and the detector *)

Evaluated == "calculate_overall_status" \in called
Detected == {"detect_highlights", "detect_lowlights"} \subseteq called

\* severity order of the three colours the evaluator produces
Rank(c) == IF c = "green" THEN 0 ELSE IF c = "amber" THEN 1 ELSE 2

\* C1: the overall status is green, amber or red and is the worst of the four
\* dimension statuses: never better than any dimension, equal to one of them,
\* red as soon as one dimension is red, green only when all four are green.
C1_WorstOf ==
    Evaluated =>
        /\ overall.status \in {"green", "amber", "red"}
        /\ \A i \in 1..4 : Rank(overall.status) >= Rank(dims[i])
        /\ \E i \in 1..4 : overall.status = dims[i]
        /\ (\E i \in 1..4 : dims[i] = "red") => overall.status = "red"
        /\ overall.status = "green" => \A i \in 1..4 : dims[i] = "green"

\* one red dimension among green ones forces overall red
C1_Witness ==
    /\ Evaluated
    /\ dims[1] = "red"
    /\ dims[2] = "green" /\ dims[3] = "green" /\ dims[4] = "green"
    /\ overall.status = "red"

\* C2: each dimension status is the first matching band of its own ladder:
\* schedule on spi (>= 0.98 green, >= 0.90 amber, else red), cost the same on
\* cpi, quality on sev1/sev2 (0/0 green, sev1 0 and sev2 <= 3 amber, else
\* red), risk on risk_score (<= 0.3 green, <= 0.6 amber, else red).
C2_Ladders ==
    Evaluated =>
        /\ dims[1] = (IF metrics.spi >= 98 THEN "green"
                      ELSE IF metrics.spi >= 90 /\ metrics.spi < 98 THEN "amber"
                      ELSE "red")
        /\ dims[2] = (IF metrics.cpi >= 98 THEN "green"
                      ELSE IF metrics.cpi >= 90 /\ metrics.cpi < 98 THEN "amber"
                      ELSE "red")
        /\ dims[3] = (IF metrics.sev1_defects <= 0 /\ metrics.sev2_defects <= 0 THEN "green"
                      ELSE IF metrics.sev1_defects <= 0 /\ metrics.sev2_defects <= 3 THEN "amber"
                      ELSE "red")
        /\ (metrics.sev1_defects >= 1 => dims[3] = "red")
        /\ dims[4] = (IF metrics.risk_score <= 30 THEN "green"
                      ELSE IF metrics.risk_score <= 60 THEN "amber"
                      ELSE "red")

\* every boundary value falls in the better band
C2_Witness ==
    /\ Evaluated
    /\ metrics.spi = 98 /\ dims[1] = "green"
    /\ metrics.cpi = 90 /\ dims[2] = "amber"
    /\ metrics.sev1_defects = 0 /\ metrics.sev2_defects = 3 /\ dims[3] = "amber"
    /\ metrics.risk_score = 60 /\ dims[4] = "amber"

\* the five metrics the confidence looks at, each with a value off its default
data_point_fields ==
    [spi |-> 95, cpi |-> 105, quality_score |-> 95, risk_score |-> 30,
     milestone_completion_rate |-> [num |-> 49, den |-> 50]]

\* the names of the five metrics that differ from their default
Deviating(m) == {f \in DOMAIN data_point_fields : m[f] # HealthMetrics[f]}

\* the inputs got from m by resetting one of the five metrics to its default
\* or by moving it to a value off its default
OneMetricChanged(m) ==
    {[m EXCEPT ![f] = HealthMetrics[f]] : f \in DOMAIN data_point_fields}
    \cup {[m EXCEPT ![f] = data_point_fields[f]] : f \in DOMAIN data_point_fields}

\* C3: the confidence is k/5 (20k hundredths) for k the number of the five
\* metrics that differ from their default, lies in [0,1], and does not
\* decrease when the set of deviating metrics grows.
C3_Confidence ==
    Evaluated =>
        /\ overall.confidence * 5 = Cardinality(Deviating(metrics)) * 100
        /\ overall.confidence >= 0 /\ overall.confidence <= 100
        /\ \A m2 \in OneMetricChanged(metrics) :
              /\ Deviating(metrics) \subseteq Deviating(m2)
                    => overall.confidence <= calculate_overall_status(m2).confidence
              /\ Deviating(m2) \subseteq Deviating(metrics)
                    => calculate_overall_status(m2).confidence <= overall.confidence

\* three of five metrics deviate, the risk dimension being green all the same
C3_Witness ==
    /\ Evaluated
    /\ Deviating(metrics) = {"spi", "risk_score", "milestone_completion_rate"}
    /\ dims[4] = "green"
    /\ overall.confidence = 60

RECURSIVE Categories(_)
\* the category tags of a list of records, in order
Categories(recs) ==
    IF recs = <<>> THEN <<>> ELSE <<Head(recs).category>> \o Categories(Tail(recs))

\* the rules of a rule list that fire, in rule order
Fired(rules) == SelectSeq(rules, LAMBDA r : r.fires)

HighlightRules(m) ==
    <<[category |-> "schedule", fires |-> m.spi >= 105],
      [category |-> "cost",     fires |-> m.cpi >= 105],
      [category |-> "quality",  fires |-> m.sev1_defects = 0 /\ m.sev2_defects = 0],
      [category |-> "delivery", fires |-> m.milestone_completion_rate.num * 100
                                                > 95 * m.milestone_completion_rate.den]>>

LowlightRules(m) ==
    <<[category |-> "schedule", fires |-> m.spi <= 95],
      [category |-> "cost",     fires |-> m.cpi <= 95],
      [category |-> "quality",  fires |-> m.sev1_defects >= 1],
      [category |-> "risk",     fires |-> m.risk_score > 60]>>

\* C4: the detector returns one record per fired rule in the fixed rule
\* order, whatever previous_metrics and project_data are; every lowlight has
\* an action_required; the two snapshots of the spec give 4 highlights and 0
\* lowlights, respectively overall red and at least 4 lowlights.
C4_Detector ==
    (Evaluated /\ Detected) =>
        /\ Categories(highlights) = Categories(Fired(HighlightRules(metrics)))
        /\ Categories(lowlights) = Categories(Fired(LowlightRules(metrics)))
        /\ \A i \in 1..Len(lowlights) :
              /\ "action_required" \in DOMAIN lowlights[i]
              /\ lowlights[i].impact = "negative"
        /\ \A i \in 1..Len(highlights) : highlights[i].impact = "positive"
        /\ \A pm \in {HealthMetrics, metrics}, pd \in {<<>>, <<"name">>} :
              /\ detect_highlights(metrics, pm, pd) = highlights
              /\ detect_lowlights(metrics, pm, pd) = lowlights
        /\ (/\ metrics.spi = 110 /\ metrics.cpi = 110
            /\ metrics.sev1_defects = 0 /\ metrics.sev2_defects = 0
            /\ metrics.milestone_completion_rate = [num |-> 49, den |-> 50]
            /\ metrics.risk_score = 0)
              => Len(highlights) = 4 /\ Len(lowlights) = 0
        /\ (/\ metrics.spi = 80 /\ metrics.cpi = 80
            /\ metrics.sev1_defects = 2 /\ metrics.risk_score = 90)
              => overall.status = "red" /\ Len(lowlights) >= 4

\* the all-breach snapshot: four lowlights in rule order
C4_Witness ==
    /\ Evaluated /\ Detected
    /\ metrics.spi = 80 /\ metrics.cpi = 80
    /\ metrics.sev1_defects = 2 /\ metrics.risk_score = 90
    /\ Categories(lowlights) = <<"schedule", "cost", "quality", "risk">>
    /\ Len(highlights) = 1

-----------------------------------------------------------------------------
(* Properties of the comparator and the engine *)

\* the trace entries of one operation
Entries(op) == {i \in 1..Len(trace) : trace[i].op = op}

\* the instant of a dated record, in hours
Instant(r) == 24 * r.date.day + r.date.hour

\* the records of data that satisfy a predicate on (record, now), in list order
Within(data, now, lo, hi) ==
    SelectSeq(data, LAMBDA r :
        "date" \in DOMAIN r /\ now - 24 * lo <= Instant(r) /\ Instant(r) <= now - 24 * hi)

RECURSIVE Total(_, _, _)
\* the sum of field k (default when absent) over a list of records
Total(recs, k, default) ==
    IF recs = <<>> THEN 0
    ELSE (IF k \in DOMAIN Head(recs) THEN Head(recs)[k] ELSE default)
         + Total(Tail(recs), k, default)

\* C5: with one `now` per call, the recent window holds exactly the dated
\* records with now-7d <= date <= now and the previous window those with
\* now-14d <= date <= now-7d, both ends included; a record dated exactly
\* now-7d is in both windows and in both aggregates, undated records and
\* records before now-14d or after now are in neither.
C5_Windows ==
    \A i \in Entries("calculate_7day_comparison") :
        LET e == trace[i]
            h == e.historical_data
        IN /\ e.recent_period = Within(h, e.now, 7, 0)
           /\ e.previous_period = Within(h, e.now, 14, 7)
           /\ e.ret.current_period.metrics.total_issues = Total(Within(h, e.now, 7, 0), "issues", 0)
           /\ e.ret.previous_period.metrics.total_issues = Total(Within(h, e.now, 14, 7), "issues", 0)
           /\ \A j \in 1..Len(h) :
                 /\ ("date" \in DOMAIN h[j] /\ Instant(h[j]) = e.now - 168)
                       => /\ \E k \in 1..Len(e.recent_period) : e.recent_period[k] = h[j]
                          /\ \E k \in 1..Len(e.previous_period) : e.previous_period[k] = h[j]
                 /\ ("date" \in DOMAIN h[j] /\ Instant(h[j]) = e.now - 336)
                       => \E k \in 1..Len(e.previous_period) : e.previous_period[k] = h[j]
                 /\ ("date" \in DOMAIN h[j] /\ Instant(h[j]) = e.now)
                       => \E k \in 1..Len(e.recent_period) : e.recent_period[k] = h[j]
           /\ Len(e.recent_period) + Len(e.previous_period)
                 = Cardinality({j \in 1..Len(h) : "date" \in DOMAIN h[j]
                                   /\ e.now - 336 <= Instant(h[j]) /\ Instant(h[j]) <= e.now})
                   + Cardinality({j \in 1..Len(h) : "date" \in DOMAIN h[j]
                                   /\ Instant(h[j]) = e.now - 168})

\* a record dated exactly now-7d counted in both aggregates, beside one
\* dated exactly now-14d
C5_Witness ==
    \E i \in Entries("calculate_7day_comparison") :
        LET e == trace[i]
            h == e.historical_data
        IN /\ Len(h) = 2
           /\ DOMAIN h[1] = {"date", "spi", "cpi", "issues"}
           /\ DOMAIN h[2] = {"date", "spi", "cpi", "issues"}
           /\ Instant(h[1]) = e.now - 168 /\ h[1].issues = 9
           /\ Instant(h[2]) = e.now - 336 /\ h[2].issues = 10
           /\ e.ret.current_period.metrics.total_issues = 9
           /\ e.ret.previous_period.metrics.total_issues = 19

\* C8: a window aggregates to the average spi, the average cpi and the sum of
\* issues of its records, an empty window to spi 1.0, cpi 1.0, issues 0,
\* completion 0.0; schedule is up if recent avg spi > previous avg spi * 1.02,
\* down if < * 0.98, else flat; cost likewise on cpi; quality is up if recent
\* issues < previous issues * 0.9, down if > * 1.1, else flat; with both
\* windows empty all three trends are flat.
C8_Trends ==
    \A i \in Entries("calculate_7day_comparison") :
        LET e == trace[i]
            R == e.ret.current_period.metrics
            P == e.ret.previous_period.metrics
            T == e.ret.trends
            agg(m, recs) ==
                IF recs = <<>>
                THEN /\ m.avg_spi.num = 100 * m.avg_spi.den
                     /\ m.avg_cpi.num = 100 * m.avg_cpi.den
                     /\ m.total_issues = 0
                     /\ m.completion_rate.num = 0
                ELSE /\ m.avg_spi.num * Len(recs) = Total(recs, "spi", 100) * m.avg_spi.den
                     /\ m.avg_cpi.num * Len(recs) = Total(recs, "cpi", 100) * m.avg_cpi.den
                     /\ m.total_issues = Total(recs, "issues", 0)
            index(r, q) ==
                IF r.num * q.den * 100 > q.num * r.den * 102 THEN "up"
                ELSE IF r.num * q.den * 100 < q.num * r.den * 98 THEN "down"
                ELSE "flat"
        IN /\ R.avg_spi.den > 0 /\ R.avg_cpi.den > 0 /\ P.avg_spi.den > 0 /\ P.avg_cpi.den > 0
           /\ agg(R, e.recent_period)
           /\ agg(P, e.previous_period)
           /\ T.schedule = index(R.avg_spi, P.avg_spi)
           /\ T.cost = index(R.avg_cpi, P.avg_cpi)
           /\ T.quality = (IF 10 * R.total_issues < 9 * P.total_issues THEN "up"
                           ELSE IF 10 * R.total_issues > 11 * P.total_issues THEN "down"
                           ELSE "flat")
           /\ (e.recent_period = <<>> /\ e.previous_period = <<>>)
                 => T = [schedule |-> "flat", cost |-> "flat", quality |-> "flat"]

\* fewer issues in the recent window: quality up while schedule and cost go down
C8_Witness ==
    \E i \in Entries("calculate_7day_comparison") :
        LET e == trace[i]
        IN /\ Len(e.recent_period) = 1 /\ Len(e.previous_period) = 1
           /\ e.ret.current_period.metrics.total_issues = 9
           /\ e.ret.previous_period.metrics.total_issues = 11
           /\ e.ret.trends.quality = "up"
           /\ e.ret.trends.schedule = "down"
           /\ e.ret.trends.cost = "up"

\* what the extraction is to yield for a project, but for the sev1 estimate
ExtractedAsSpecified(p, m) ==
    LET ms == IF "milestones" \in DOMAIN p THEN p.milestones ELSE <<>>
        rs == IF "risks" \in DOMAIN p THEN p.risks ELSE <<>>
        ks == IF "kpis" \in DOMAIN p THEN p.kpis ELSE <<>>
        completed == Cardinality({j \in 1..Len(ms) :
                        "status" \in DOMAIN ms[j] /\ ms[j].status = "completed"})
        at_risk == \E j \in 1..Len(ms) : "status" \in DOMAIN ms[j] /\ ms[j].status = "at-risk"
        high == Cardinality({j \in 1..Len(rs) :
                        "severity" \in DOMAIN rs[j] /\ rs[j].severity = "high"})
        matching == {j \in 1..Len(ks) : "metric" \in DOMAIN ks[j]
                        /\ ks[j].metric \in {"Open Issues", "issue_count", "ISSUES"}}
        first == CHOOSE j \in matching : \A k \in matching : j <= k
        issue_count == IF matching = {} THEN 0
                       ELSE IF "value" \in DOMAIN ks[first] THEN ks[first].value ELSE 0
        rate == m.milestone_completion_rate
    IN /\ rate.den > 0
       /\ IF ms = <<>> THEN rate.num = 0 ELSE rate.num * Len(ms) = completed * rate.den
       /\ m.risk_score = (IF 30 * high <= 100 THEN 30 * high ELSE 100)
       /\ m.defect_count = issue_count
       /\ m.spi = (IF at_risk THEN 95 ELSE 102)
       /\ m.cpi = 98
       /\ m.sev2_defects = (IF (issue_count \div 5) - m.sev1_defects >= 0
                            THEN (issue_count \div 5) - m.sev1_defects ELSE 0)
       /\ m.quality_score = (IF issue_count < 100 THEN 100 - issue_count ELSE 0)

\* absent id and name default to 'unknown' and 'Unknown Project'
IdentityDefaults ==
    \A i \in Entries("evaluate_project") :
        LET p == trace[i].project_data
            r == trace[i].ret
        IN /\ r.project_id = (IF "id" \in DOMAIN p THEN p.id ELSE "unknown")
           /\ r.project_name = (IF "name" \in DOMAIN p THEN p.name ELSE "Unknown Project")

Occurrences(trends, t) ==
    Cardinality({d \in {"schedule", "cost", "quality"} : trends[d] = t})

\* C10: without historical data (None or an empty list) the comparator is
\* not run, the trend is flat and the comparison payload is empty; with
\* historical data the overall trend occurs a maximal number of times among
\* the schedule, cost and quality trends, so it is the common value of any two
\* that agree; every entry of a portfolio report has trend flat.
C10_Trend ==
    /\ \A i \in Entries("evaluate_project") :
          LET e == trace[i]
              r == e.ret
          IN IF e.historical_data.is_none \/ e.historical_data.items = <<>>
             THEN r.trend = "flat" /\ r.comparison_period = EmptyDict
             ELSE LET T == r.comparison_period.trends
                  IN /\ r.comparison_period =
                            calculate_7day_comparison(e.project_data,
                                                      e.historical_data.items,
                                                      r.evaluation_date)
                     /\ r.trend \in {T.schedule, T.cost, T.quality}
                     /\ \A t \in TrendDirection :
                           Occurrences(T, r.trend) >= Occurrences(T, t)
                     /\ \A t \in TrendDirection :
                           Occurrences(T, t) >= 2 => r.trend = t
    /\ \A i \in Entries("generate_status_report") :
          \A j \in 1..Len(trace[i].ret.projects) : trace[i].ret.projects[j].trend = "flat"

\* two dimensions agree on a trend that is neither flat nor the schedule trend
C10_Witness ==
    \E i \in Entries("evaluate_project") :
        LET r == trace[i].ret
        IN /\ ~trace[i].historical_data.is_none
           /\ trace[i].historical_data.items # <<>>
           /\ r.comparison_period.trends.schedule = "up"
           /\ r.comparison_period.trends.cost = "down"
           /\ r.comparison_period.trends.quality = "down"
           /\ r.trend = "down"

\* C6: a report has one entry per input project, in input order;
\* total_projects is the number of input projects; every status is green,
\* amber or red and the three counts sum to the total; for no projects the
\* total and the counts are 0 and every percentage is "0%".
C6_Report ==
    \A i \in Entries("generate_status_report") :
        LET ps == trace[i].projects
            r == trace[i].ret
            d == r.summary.health_distribution
            pc == r.summary.health_percentage
        IN /\ Len(r.projects) = Len(ps)
           /\ \A j \in 1..Len(ps) :
                 /\ r.projects[j].project
                       = (IF "name" \in DOMAIN ps[j] THEN <<ps[j].name>> ELSE <<>>)
                 /\ r.projects[j].status \in {"green", "amber", "red"}
                 /\ r.projects[j].metrics.risk = _extract_metrics(ps[j]).risk_score
                 /\ r.projects[j].metrics.quality = _extract_metrics(ps[j]).quality_score
           /\ r.summary.total_projects = Len(ps)
           /\ d.green + d.amber + d.red = Len(ps)
           /\ \A c \in {"green", "amber", "red"} :
                 d[c] = Cardinality({j \in 1..Len(ps) : r.projects[j].status = c})
           /\ ps = <<>> =>
                 /\ r.summary.total_projects = 0
                 /\ d = [green |-> 0, amber |-> 0, red |-> 0]
                 /\ \A c \in {"green", "amber", "red"} : pc[c] = <<0, "%">>

\* a portfolio of a red, a green and an amber project, in this order
C6_Witness ==
    \E i \in Entries("generate_status_report") :
        LET r == trace[i].ret
        IN /\ trace[i].projects = <<ProjectGamma, ProjectBare, ProjectBeta>>
           /\ r.projects[1].status = "red"
           /\ r.projects[2].status = "green"
           /\ r.projects[3].status = "amber"
           /\ r.summary.health_distribution = [green |-> 1, amber |-> 1, red |-> 1]
           /\ r.summary.health_percentage.red = <<33, "%">>

\* a result without its wall-clock timestamp
Timeless(r) == [f \in DOMAIN r \ {"evaluation_date"} |-> r[f]]

\* C7: on one engine, two evaluations of the same project without historical
\* data give the same result but for evaluation_date, whatever evaluations
\* and reports were made in between; a report entry agrees with the
\* evaluation of its project; no call changes the engine's tables.
C7_Reentrant ==
    /\ \A i, j \in Entries("evaluate_project") :
          (/\ trace[i].project_data = trace[j].project_data
           /\ trace[i].historical_data = None
           /\ trace[j].historical_data = None)
             => Timeless(trace[i].ret) = Timeless(trace[j].ret)
    /\ \A i \in Entries("evaluate_project"), j \in Entries("generate_status_report") :
          \A k \in 1..Len(trace[j].projects) :
             (trace[j].projects[k] = trace[i].project_data /\ trace[i].historical_data = None)
                => /\ trace[j].ret.projects[k].status = trace[i].ret.overall_status
                   /\ trace[j].ret.projects[k].highlights = trace[i].ret.highlights
                   /\ trace[j].ret.projects[k].lowlights = trace[i].ret.lowlights
                   /\ trace[j].ret.projects[k].confidence[1] = trace[i].ret.confidence_score
    /\ THRESHOLDS = THRESHOLDS_TABLE
    /\ HIGHLIGHT_TRIGGERS = HIGHLIGHT_TRIGGERS_TABLE
    /\ LOWLIGHT_TRIGGERS = LOWLIGHT_TRIGGERS_TABLE

\* the same project evaluated before and after a report on other projects,
\* at two different instants
C7_Witness ==
    /\ Len(trace) = 3
    /\ trace[1].op = "evaluate_project" /\ trace[1].project_data = ProjectBeta
    /\ trace[2].op = "generate_status_report"
    /\ trace[2].projects = <<ProjectGamma, ProjectBare>>
    /\ trace[3].op = "evaluate_project" /\ trace[3].project_data = ProjectBeta
    /\ trace[1].ret.evaluation_date < trace[3].ret.evaluation_date
    /\ Len(trace[3].ret.highlights) = 0 /\ Len(trace[3].ret.lowlights) = 1

\* the first of the schedule, cost and quality trends, in this order, that
\* occurs a maximal number of times among the three
FirstMostFrequent(trends) ==
    LET in_order == <<trends.schedule, trends.cost, trends.quality>>
        maximal(t) == \A u \in TrendDirection : Occurrences(trends, t) >= Occurrences(trends, u)
        k == CHOOSE i \in 1..3 :
                /\ maximal(in_order[i])
                /\ \A j \in 1..(i - 1) : ~maximal(in_order[j])
    IN in_order[k]

\* C11: the overall trend is a function of the three per-dimension trends
\* alone: it is the most frequent of them and, when all three differ, the
\* first in the order schedule, cost, quality, so that two evaluations with
\* the same three trends always yield the same overall trend.
C11_StableTieBreak ==
    /\ \A i \in Entries("evaluate_project") :
          LET r == trace[i].ret
          IN (~trace[i].historical_data.is_none /\ trace[i].historical_data.items # <<>>)
                => r.trend = FirstMostFrequent(r.comparison_period.trends)
    /\ \A i, j \in Entries("evaluate_project") :
          LET ri == trace[i].ret
              rj == trace[j].ret
          IN (/\ ri.comparison_period # EmptyDict
              /\ rj.comparison_period # EmptyDict
              /\ ri.comparison_period.trends = rj.comparison_period.trends)
                => ri.trend = rj.trend


\* the issue count of a project: the value of its first KPI whose name
\* contains 'issue' (0 without one), and its number of high-severity risks
IssueCount(p) ==
    LET ks == IF "kpis" \in DOMAIN p THEN p.kpis ELSE <<>>
        matching == {j \in 1..Len(ks) : "metric" \in DOMAIN ks[j]
                        /\ ks[j].metric \in {"Open Issues", "issue_count", "ISSUES"}}
        first == CHOOSE j \in matching : \A k \in matching : j <= k
    IN IF matching = {} THEN 0
       ELSE IF "value" \in DOMAIN ks[first] THEN ks[first].value ELSE 0

HighRiskCount(p) ==
    LET rs == IF "risks" \in DOMAIN p THEN p.risks ELSE <<>>
    IN Cardinality({j \in 1..Len(rs) :
           "severity" \in DOMAIN rs[j] /\ rs[j].severity = "high"})

HasAtRiskMilestone(p) ==
    /\ "milestones" \in DOMAIN p
    /\ \E j \in 1..Len(p.milestones) :
          "status" \in DOMAIN p.milestones[j] /\ p.milestones[j].status = "at-risk"

\* C12: for a project with a non-negative issue count, evaluate_project
\* returns red exactly when the issue count is at least 10 or the project has
\* at least 3 high-severity risks.  Extracted spi is 0.95 or 1.02 and
\* extracted cpi is 0.98, so schedule is amber or green and cost is green;
\* an at-risk milestone alone yields amber; no result carries a 'cost'
\* highlight or lowlight or the 'Schedule Performance Exceeds Target'
\* highlight.
C12_RedCauses ==
    \A i \in Entries("evaluate_project") :
        LET p == trace[i].project_data
            r == trace[i].ret
            m == r.health_metrics
        IN /\ IssueCount(p) >= 0 =>
                 (r.overall_status = "red" <=> (IssueCount(p) >= 10 \/ HighRiskCount(p) >= 3))
           /\ m.spi \in {95, 102}
           /\ m.cpi = 98
           /\ evaluate_schedule_health(m) \in {"amber", "green"}
           /\ evaluate_cost_health(m) = "green"
           /\ (HasAtRiskMilestone(p) /\ IssueCount(p) \in 0..4 /\ HighRiskCount(p) <= 1)
                 => r.overall_status = "amber"
           /\ \A k \in 1..Len(r.highlights) :
                 /\ r.highlights[k].category # "cost"
                 /\ r.highlights[k].title # "Schedule Performance Exceeds Target"
           /\ \A k \in 1..Len(r.lowlights) : r.lowlights[k].category # "cost"

\* a project with an at-risk milestone, 9 issues and 2 high risks among 4,
\* evaluated amber with a schedule lowlight and no highlight
C12_Witness ==
    \E i \in Entries("evaluate_project") :
        LET p == trace[i].project_data
            r == trace[i].ret
        IN /\ HasAtRiskMilestone(p)
           /\ IssueCount(p) = 9
           /\ HighRiskCount(p) = 2 /\ Len(p.risks) = 4
           /\ r.health_metrics.risk_score = 60
           /\ r.health_metrics.sev2_defects = 1
           /\ r.overall_status = "amber"
           /\ Len(r.lowlights) = 1 /\ r.lowlights[1].category = "schedule"
           /\ r.highlights = <<>>

====
